---- MODULE Spec2Model ----
(***************************************************************************)
(* Model of parlant.contrib.alice.alice.Alice: the adapter that builds the *)
(* WonderFence SDK client, checks generated messages with it from the      *)
(* on-message-generated engine hook, and registers itself in the host      *)
(* container.                                                              *)
(*                                                                         *)
(* The SDK (evaluate_response), the host's session event emitter, the      *)
(* logger and the container are the environment: the SDK answers with any  *)
(* response of Responses or raises any error of SdkErrors; the emitter     *)
(* stores the event it is given and returns.                               *)
(***************************************************************************)
EXTENDS Integers, Sequences, FiniteSets, TLC

VARIABLES
    env,        \* the process environment read by os.getenv
    alice,      \* the constructed Alice object, or NoAlice
    sdkClients, \* the SDKClient objects created so far, in order
    ctorCall,   \* the latest constructor call: its arguments and how it ended
    calls,      \* the invocations of check_message / check_message_compliance
    session,    \* the message events the session event emitter has stored
    container   \* the host's dependency container

vars == <<env, alice, sdkClients, ctorCall, calls, session, container>>

----------------------------------------------------------------------------
\* Bounds of the model.

\* invocations of check_message and check_message_compliance, finished or not
MaxCalls == 2
\* calls of configure_container on the container
MaxConfigure == 2

----------------------------------------------------------------------------
\* Values.

\* Python's None
None == "<None>"

\* the default of os.getenv("ALICE_BLOCKED_MESSAGE", ...)
DefaultBlockedMessage == "The generated message was blocked by guardrails."

\* wonderfence_sdk.models.Actions
Actions == {"NO_ACTION", "DETECT", "MASK", "BLOCK"}

\* p.EngineHookResult
BAIL == "BAIL"
CALL_NEXT == "CALL_NEXT"

\* the arguments of Alice(...)
ArgApiKeys == {None, "", "arg-key"}
ArgAppNames == {None, "arg-app"}
ArgBlockedMessages == {None, "", "arg-blocked"}

\* the process environments: a variable is unset (None), set and empty, or set
Envs ==
    [ALICE_API_KEY : {None, "", "env-key"},
     ALICE_APP_NAME : {None, "env-app"},
     ALICE_BLOCKED_MESSAGE : {None, "", "env-blocked"}]

\* the engine contexts a hook is called with
Contexts ==
    {[session_id |-> "s1", agent_id |-> "a1", agent_name |-> "Agent One",
      trace_id |-> "t1"],
     [session_id |-> "s2", agent_id |-> "a2", agent_name |-> "Agent Two",
      trace_id |-> "t2"]}

\* one of them
Context1 == CHOOSE ctx \in Contexts : ctx.session_id = "s1"

\* the generated messages (the hook's payload)
Payloads == {"m1", "m2"}

\* the inputs of a direct check_message call
Messages == {None, "", "m1"}
Images == {None, "img"}

\* EvaluateMessageResponse, as far as the adapter reads it: action and
\* action_text (the replacement text; the SDK leaves it None when it has none)
Responses ==
    {r \in [action : Actions, action_text : {None, "m1", "m1-masked"}] :
        r.action \in {"NO_ACTION", "DETECT"} => r.action_text = None}

\* what the awaited SDK call can raise: the class raised and whether it
\* derives from Exception (ConnectionError does, asyncio.CancelledError and
\* KeyboardInterrupt derive from BaseException only)
SdkErrors ==
    {[type |-> "ConnectionError", is_exception |-> TRUE],
     [type |-> "CancelledError", is_exception |-> FALSE]}

NoAlice == [constructed |-> FALSE]
NoResponse == [action |-> None, action_text |-> None]
NoException == [type |-> None, message |-> None, cause |-> None]
NoSdkError == [type |-> None, is_exception |-> FALSE]
NoCtorCall == [made |-> FALSE]

----------------------------------------------------------------------------
\* Alice.__init__

\* Python truthiness of an Optional[str]
Truthy(x) == x # None /\ x # ""

\* Python's `a or b`
Or(a, b) == IF Truthy(a) THEN a ELSE b

\* os.getenv(name)
getenv(name) == env[name]

\* os.getenv(name, default)
getenv_default(name, default) == IF env[name] = None THEN default ELSE env[name]

\* a slip: the environment variable takes precedence over the argument
ResolveApiKey_EnvFirst(api_key) == Or(getenv("ALICE_API_KEY"), api_key)

ResolveApiKey(api_key) == Or(api_key, getenv("ALICE_API_KEY"))

ResolveAppName(app_name) == Or(app_name, getenv("ALICE_APP_NAME"))

\* a slip: ALICE_BLOCKED_MESSAGE is not read
ResolveBlockedMessage_NoEnv(blocked_message) == Or(blocked_message, DefaultBlockedMessage)

ResolveBlockedMessage(blocked_message) ==
    Or(blocked_message, getenv_default("ALICE_BLOCKED_MESSAGE", DefaultBlockedMessage))

\* SDKClient(api_key=..., app_name=...)
SDKClient(api_key, app_name) == [api_key |-> api_key, app_name |-> app_name]

\* the object a constructor call that does not raise leaves behind
NewAlice(api_key, app_name, blocked_message, client) ==
    [constructed |-> TRUE,
     api_key |-> ResolveApiKey(api_key),
     app_name |-> ResolveAppName(app_name),
     blocked_message |-> ResolveBlockedMessage(blocked_message),
     client |-> client]

\* the record of a constructor call: its arguments, what it raised, and how
\* many SDK clients existed when it was made
CtorCall(api_key, app_name, blocked_message, raised, clients_before) ==
    [made |-> TRUE,
     args |-> [api_key |-> api_key, app_name |-> app_name,
               blocked_message |-> blocked_message],
     raised |-> raised,
     clients_before |-> clients_before]

\* Alice(api_key, app_name, blocked_message). The model follows one Alice
\* object: a call that raised ValueError left none behind and may be repeated.
AliceInit(api_key, app_name, blocked_message) ==
    /\ ~alice.constructed
    /\ LET self == NewAlice(api_key, app_name, blocked_message, Len(sdkClients) + 1)
       IN  IF ~Truthy(self.api_key)
           THEN /\ ctorCall' = CtorCall(api_key, app_name, blocked_message, "ValueError",
                                        Len(sdkClients))
                /\ UNCHANGED <<alice, sdkClients>>
           ELSE /\ sdkClients' = Append(sdkClients, SDKClient(self.api_key, self.app_name))
                /\ alice' = self
                /\ ctorCall' = CtorCall(api_key, app_name, blocked_message, None,
                                        Len(sdkClients))
    /\ UNCHANGED <<env, calls, session, container>>

----------------------------------------------------------------------------
\* Alice.check_message

\* a slip: the validation tests truthiness (`not message`) instead of `is None`
InputError_Falsy(message, image) ==
    IF ~Truthy(message) /\ image = None
    THEN "Either message or image must be provided"
    ELSE IF Truthy(message) /\ image # None
    THEN "Cannot provide both message and image - they are mutually exclusive"
    ELSE None

\* the input validation: the ValueError raised, or None
InputError(message, image) ==
    IF message = None /\ image = None
    THEN "Either message or image must be provided"
    ELSE IF message # None /\ image # None
    THEN "Cannot provide both message and image - they are mutually exclusive"
    ELSE None

\* AnalysisContext(user_id=agent_id, session_id=session_id)
AnalysisContext(session_id, agent_id) ==
    [user_id |-> agent_id, session_id |-> session_id]

\* the arguments of self._client.evaluate_response(...)
EvaluateArgs(session_id, agent_id, message, image) ==
    [client |-> alice.client,
     context |-> AnalysisContext(session_id, agent_id),
     response |-> message,
     image |-> image]

\* a slip: the evaluator is called a second time for the same input
EvaluatorCalls_Twice(session_id, agent_id, message, image) ==
    <<EvaluateArgs(session_id, agent_id, message, image),
      EvaluateArgs(session_id, agent_id, message, image)>>

\* the evaluator calls an invocation makes once its input is valid
EvaluatorCalls(session_id, agent_id, message, image) ==
    <<EvaluateArgs(session_id, agent_id, message, image)>>

\* a slip: the new exception is not chained to the one the SDK raised
Reraised_Unchained(e) ==
    IF e.is_exception
    THEN [type |-> "Exception", message |-> "Moderation service failure (Alice)",
          cause |-> None]
    ELSE [type |-> e.type, message |-> None, cause |-> None]

\* `except Exception as e: raise Exception(...) from e`: what check_message
\* raises when the awaited SDK call raises e
Reraised(e) ==
    IF e.is_exception
    THEN [type |-> "Exception", message |-> "Moderation service failure (Alice)",
          cause |-> e.type]
    ELSE [type |-> e.type, message |-> None, cause |-> None]

\* an invocation from its entry up to its first await: the validation, and
\* the evaluator call it starts
Enter(op, ctx, message, image) ==
    LET err == InputError(message, image)
        base == [op |-> op, session_id |-> ctx.session_id, agent_id |-> ctx.agent_id,
                 agent_name |-> ctx.agent_name, trace_id |-> ctx.trace_id,
                 message |-> message, image |-> image,
                 pc |-> "done", sdk |-> <<>>, sdk_done |-> 0,
                 result |-> NoResponse, sdk_raised |-> NoSdkError,
                 raised |-> NoException, ret |-> None,
                 warnings |-> <<>>]
    IN  IF err # None
        THEN [base EXCEPT !.raised = [type |-> "ValueError", message |-> err,
                                      cause |-> None]]
        ELSE [base EXCEPT !.pc = "awaiting_sdk",
                          !.sdk = EvaluatorCalls(ctx.session_id, ctx.agent_id,
                                                 message, image)]

\* await alice.check_message(session_id, agent_id, message, image), called
\* directly (from a custom tool)
check_message(session_id, agent_id, message, image) ==
    /\ alice.constructed
    /\ Len(calls) < MaxCalls
    /\ calls' = Append(calls,
                       Enter("check_message",
                             [session_id |-> session_id, agent_id |-> agent_id,
                              agent_name |-> None, trace_id |-> None],
                             message, image))
    /\ UNCHANGED <<env, alice, sdkClients, ctorCall, session, container>>

----------------------------------------------------------------------------
\* Alice.check_message_compliance

\* a slip: a detection is treated like a block
Prevents_Detect(action) == action \in {"DETECT", "BLOCK", "MASK"}

\* `elif result.action in (Actions.BLOCK, Actions.MASK)`
Prevents(action) == action \in {"BLOCK", "MASK"}

\* a slip: the service's text is used whenever the response carries one
ReplacementMessage_TextIfAny(result) ==
    IF result.action_text # None THEN result.action_text ELSE alice.blocked_message

\* a slip: the static message is sent for a mask too
ReplacementMessage_Static(result) == alice.blocked_message

\* `result.action_text if result.action == Actions.MASK else self.blocked_message`
ReplacementMessage(result) ==
    IF result.action = "MASK" THEN result.action_text ELSE alice.blocked_message

\* the warnings the hook logs for an action
Warnings(action) ==
    IF action = "DETECT" THEN <<"Detected a non-compliant message">>
    ELSE IF Prevents(action) THEN <<"Prevented sending a non-compliant message">>
    ELSE <<>>

\* a slip: the hook falls through to CALL_NEXT after a mask
HookResult_MaskFallsThrough(action) == IF action = "BLOCK" THEN BAIL ELSE CALL_NEXT

\* what the hook returns for an action
HookResult(action) == IF Prevents(action) THEN BAIL ELSE CALL_NEXT

\* the event handed to ctx.session_event_emitter.emit_message_event
MessageEvent(c, message) ==
    [session_id |-> c.session_id,
     trace_id |-> c.trace_id,
     message |-> message,
     participant |-> [id |-> c.agent_id, display_name |-> c.agent_name]]

\* the engine calls the hook with the generated message
check_message_compliance(ctx, payload) ==
    /\ alice.constructed
    /\ Len(calls) < MaxCalls
    /\ calls' = Append(calls, Enter("check_message_compliance", ctx, payload, None))
    /\ UNCHANGED <<env, alice, sdkClients, ctorCall, session, container>>

\* the awaited evaluate_response returns r to invocation i: check_message
\* returns it, and the hook runs on to its return or to its await of the emitter
evaluate_response_return(i, r) ==
    /\ calls[i].pc = "awaiting_sdk"
    /\ LET c == [calls[i] EXCEPT !.sdk_done = @ + 1, !.result = r]
       IN  IF c.op = "check_message"
           THEN /\ calls' = [calls EXCEPT ![i] =
                                [c EXCEPT !.pc = "done", !.ret = "analysis_result"]]
                /\ UNCHANGED session
           ELSE IF Prevents(r.action)
           THEN /\ calls' = [calls EXCEPT ![i] =
                                [c EXCEPT !.pc = "emitting",
                                          !.warnings = @ \o Warnings(r.action)]]
                /\ session' = Append(session,
                                     [event |-> MessageEvent(c, ReplacementMessage(r)),
                                      by |-> i])
           ELSE /\ calls' = [calls EXCEPT ![i] =
                                [c EXCEPT !.pc = "done",
                                          !.warnings = @ \o Warnings(r.action),
                                          !.ret = HookResult(r.action)]]
                /\ UNCHANGED session
    /\ UNCHANGED <<env, alice, sdkClients, ctorCall, container>>

\* the awaited evaluate_response raises e in invocation i
evaluate_response_raise(i, e) ==
    /\ calls[i].pc = "awaiting_sdk"
    /\ calls' = [calls EXCEPT ![i] =
                    [@ EXCEPT !.sdk_done = @ + 1, !.pc = "done", !.sdk_raised = e,
                              !.raised = Reraised(e)]]
    /\ UNCHANGED <<env, alice, sdkClients, ctorCall, session, container>>

\* the awaited emit_message_event returns to the hook, which returns
emit_message_event_return(i) ==
    /\ calls[i].pc = "emitting"
    /\ calls' = [calls EXCEPT ![i] =
                    [@ EXCEPT !.pc = "done", !.ret = HookResult(calls[i].result.action)]]
    /\ UNCHANGED <<env, alice, sdkClients, ctorCall, session, container>>

----------------------------------------------------------------------------
\* Alice.configure_container

\* AliceNLPServiceWrapper(original_nlp_service, self._client, logger, meter)
AliceNLPServiceWrapper(original_nlp_service, client, logger, meter) ==
    [wrapper |-> "AliceNLPServiceWrapper", original |-> original_nlp_service,
     client |-> client, logger |-> logger, meter |-> meter]

\* a slip: the hook is put in front of the hooks already registered
RegisterHook_First(hooks, hook) == <<hook>> \o hooks

\* container[p.EngineHooks].on_message_generated.append(hook)
RegisterHook(hooks, hook) == Append(hooks, hook)

configure_container ==
    /\ alice.constructed
    /\ container.configured < MaxConfigure
    /\ container' =
          [container EXCEPT
              !.NLPService = AliceNLPServiceWrapper(container.NLPService, alice.client,
                                                    container.Logger, container.Meter),
              !.on_message_generated = RegisterHook(@, "Alice.check_message_compliance"),
              !.Alice = "alice",
              !.configured = @ + 1]
    /\ UNCHANGED <<env, alice, sdkClients, ctorCall, calls, session>>

\* how many AliceNLPServiceWrapper levels wrap the host's NLP service
RECURSIVE WrapDepth(_)
WrapDepth(nlp) ==
    IF "wrapper" \in DOMAIN nlp THEN 1 + WrapDepth(nlp.original) ELSE 0

----------------------------------------------------------------------------
\* The specifications.

\* the on-message-generated hooks the host registered before the adapter
HostHooks == {<<>>, <<"host_hook_a">>, <<"host_hook_a", "host_hook_b">>}

InitContainer(hooks) ==
    [NLPService |-> [service |-> "host NLPService"],
     Logger |-> "logger", Meter |-> "meter",
     on_message_generated |-> hooks,
     Alice |-> None,
     configured |-> 0]

\* the process has started and has not constructed an Alice yet
InitWith(e, hooks) ==
    /\ env = e
    /\ alice = NoAlice
    /\ sdkClients = <<>>
    /\ ctorCall = NoCtorCall
    /\ calls = <<>>
    /\ session = <<>>
    /\ container = InitContainer(hooks)

\* Alice(api_key, app_name, blocked_message) has returned an object
InitConstructed(e, hooks, api_key, app_name, blocked_message) ==
    /\ env = e
    /\ Truthy(ResolveApiKey(api_key))
    /\ ctorCall = CtorCall(api_key, app_name, blocked_message, None, 0)
    /\ alice = NewAlice(api_key, app_name, blocked_message, 1)
    /\ sdkClients = <<SDKClient(alice.api_key, alice.app_name)>>
    /\ calls = <<>>
    /\ session = <<>>
    /\ container = InitContainer(hooks)

\* the environments that set at most ALICE_BLOCKED_MESSAGE
BlockedEnvs == {e \in Envs : e.ALICE_API_KEY = None /\ e.ALICE_APP_NAME = None}

Construct ==
    \E k \in ArgApiKeys, a \in ArgAppNames, b \in ArgBlockedMessages :
        AliceInit(k, a, b)

CallCheckMessage ==
    \E ctx \in Contexts, m \in Messages, img \in Images :
        check_message(ctx.session_id, ctx.agent_id, m, img)

CallHook ==
    \E payload \in Payloads : check_message_compliance(Context1, payload)

SdkReturns ==
    \E i \in DOMAIN calls, r \in Responses : evaluate_response_return(i, r)

SdkRaises ==
    \E i \in DOMAIN calls, e \in SdkErrors : evaluate_response_raise(i, e)

EmitterReturns ==
    \E i \in DOMAIN calls : emit_message_event_return(i)

Configure == configure_container

\* SpecCtor: the constructor, under every environment and with every argument.
InitCtor == \E e \in Envs : InitWith(e, <<>>)

NextCtor == Construct

SpecCtor == InitCtor /\ [][NextCtor]_vars

\* SpecHook: the engine calls the hook of a constructed Alice for the messages
\* generated in a session, a call possibly starting before another has ended.
InitHook ==
    \E e \in BlockedEnvs, b \in {None, "arg-blocked"} :
        /\ b = None \/ e.ALICE_BLOCKED_MESSAGE = None
        /\ InitConstructed(e, <<>>, "arg-key", None, b)

NextHook ==
    \/ CallHook
    \/ SdkReturns
    \/ SdkRaises
    \/ EmitterReturns

SpecHook == InitHook /\ [][NextHook]_vars

\* SpecCheck: tools call check_message of a constructed Alice directly.
InitCheck == InitConstructed([e \in DOMAIN CHOOSE x \in Envs : TRUE |-> None],
                             <<>>, "arg-key", None, None)

NextCheck ==
    \/ CallCheckMessage
    \/ SdkReturns
    \/ SdkRaises

SpecCheck == InitCheck /\ [][NextCheck]_vars

\* SpecContainer: the host constructs an Alice and configures its container.
InitContainerSpec == \E e \in BlockedEnvs, hooks \in HostHooks : InitWith(e, hooks)

ConstructWithKey ==
    \E a \in ArgAppNames, b \in ArgBlockedMessages : AliceInit("arg-key", a, b)

NextContainer ==
    \/ ConstructWithKey
    \/ Configure

SpecContainer == InitContainerSpec /\ [][NextContainer]_vars

\* Spec: the life of one Alice. It is constructed under an environment that
\* sets at most ALICE_BLOCKED_MESSAGE, registered in the container, called by
\* the engine for the generated message "m1" and by tools for text, in one session.
Init == \E e \in BlockedEnvs : InitWith(e, <<"host_hook_a", "host_hook_b">>)

ConstructBlocked ==
    \E b \in ArgBlockedMessages : AliceInit("arg-key", None, b)

CallCheckMessageText ==
    check_message(Context1.session_id, Context1.agent_id, "m1", None)

CallHookOnce == check_message_compliance(Context1, "m1")

Next ==
    \/ ConstructBlocked
    \/ CallCheckMessageText
    \/ CallHookOnce
    \/ SdkReturns
    \/ SdkRaises
    \/ EmitterReturns
    \/ Configure

Spec == Init /\ [][Next]_vars

----------------------------------------------------------------------------
\* The claims.

\* the invocations of the hook, and those of check_message called directly
Hooks == {i \in DOMAIN calls : calls[i].op = "check_message_compliance"}
Checks == {i \in DOMAIN calls : calls[i].op = "check_message"}

\* the events invocation i has emitted on the session
EventsBy(i) == {j \in DOMAIN session : session[j].by = i}

\* the moderation call of invocation i succeeded / raised
Succeeded(i) == calls[i].result # NoResponse
SdkRaised(i) == calls[i].sdk_raised # NoSdkError

\* invocation i has returned or raised
Ended(i) == calls[i].pc = "done"

\* C1: a hook invocation whose moderation call succeeded returns BAIL if and
\* only if the response's action is BLOCK or MASK, and CALL_NEXT for every
\* other action (NO_ACTION, DETECT).
C1_BailIffBlockOrMask ==
    \A i \in Hooks :
        (Ended(i) /\ Succeeded(i)) =>
            /\ calls[i].raised = NoException
            /\ calls[i].ret \in {BAIL, CALL_NEXT}
            /\ calls[i].ret = BAIL <=> calls[i].result.action \in {"BLOCK", "MASK"}
            /\ calls[i].result.action \in {"NO_ACTION", "DETECT"} =>
                   calls[i].ret = CALL_NEXT

\* a MASK answered with BAIL and a DETECT answered with CALL_NEXT
C1_Witness ==
    \E i, j \in Hooks :
        /\ Ended(i) /\ calls[i].result.action = "MASK" /\ calls[i].ret = BAIL
        /\ Ended(j) /\ calls[j].result.action = "DETECT" /\ calls[j].ret = CALL_NEXT

\* C2: on BLOCK the hook emits exactly one message event; its text is the
\* blocked_message of the Alice instance, whatever the generated message and
\* the response's action_text are, and its participant is the context's agent.
C2_BlockEmitsBlockedMessage ==
    \A i \in Hooks :
        calls[i].result.action = "BLOCK" =>
            /\ Cardinality(EventsBy(i)) = 1
            /\ \A j \in EventsBy(i) :
                  /\ session[j].event.message = alice.blocked_message
                  /\ session[j].event.participant =
                        [id |-> calls[i].agent_id, display_name |-> calls[i].agent_name]
                  /\ calls[i].agent_id = Context1.agent_id
                  /\ calls[i].agent_name = Context1.agent_name

\* a BLOCK whose response carries a text, the generated message itself, and
\* the event carries the blocked message instead
C2_Witness ==
    \E i \in Hooks :
        /\ Ended(i)
        /\ calls[i].result = [action |-> "BLOCK", action_text |-> "m1"]
        /\ calls[i].message = "m1"
        /\ \E j \in EventsBy(i) : session[j].event.message = "arg-blocked"

\* C3 as stated: on MASK the hook emits exactly one message event whose text is
\* the response's action_text, never the generated message and never the
\* blocked_message.
C3_MaskNeverOriginal ==
    \A i \in Hooks :
        calls[i].result.action = "MASK" =>
            /\ Cardinality(EventsBy(i)) = 1
            /\ \A j \in EventsBy(i) :
                  /\ session[j].event.message = calls[i].result.action_text
                  /\ session[j].event.message # calls[i].message
                  /\ session[j].event.message # alice.blocked_message

\* C3, amended: on MASK the hook emits exactly one message event whose text is
\* the response's action_text as the service gave it; the text differs from the
\* generated message and from the blocked_message whenever action_text does.
C3_MaskEmitsActionText ==
    \A i \in Hooks :
        calls[i].result.action = "MASK" =>
            /\ Cardinality(EventsBy(i)) = 1
            /\ \A j \in EventsBy(i) :
                  /\ session[j].event.message = calls[i].result.action_text
                  /\ calls[i].result.action_text # calls[i].message =>
                         session[j].event.message # calls[i].message
                  /\ calls[i].result.action_text # alice.blocked_message =>
                         session[j].event.message # alice.blocked_message

\* a MASK of "m1" answered with the event "m1-masked"
C3_Witness ==
    \E i \in Hooks :
        /\ Ended(i)
        /\ calls[i].message = "m1"
        /\ calls[i].result = [action |-> "MASK", action_text |-> "m1-masked"]
        /\ \E j \in EventsBy(i) : session[j].event.message = "m1-masked"

\* C4: when the action is neither BLOCK nor MASK the hook emits no event; on
\* DETECT it logs exactly one warning and on NO_ACTION none. Once no hook is
\* between its emit and its return, the session holds as many events as hooks
\* have returned BAIL.
C4_NoEventUnlessPrevented ==
    /\ \A i \in Hooks :
          (Succeeded(i) /\ calls[i].result.action \notin {"BLOCK", "MASK"}) =>
              /\ EventsBy(i) = {}
              /\ calls[i].result.action = "DETECT" => Len(calls[i].warnings) = 1
              /\ calls[i].result.action = "NO_ACTION" => calls[i].warnings = <<>>
    /\ (\A i \in Hooks : calls[i].pc # "emitting") =>
          Len(session) = Cardinality({i \in Hooks : calls[i].ret = BAIL})

\* a DETECT that logged and emitted nothing, next to a BLOCK that emitted
C4_Witness ==
    \E i, j \in Hooks :
        /\ Ended(i) /\ calls[i].result.action = "DETECT" /\ calls[i].ret = CALL_NEXT
        /\ Len(calls[i].warnings) = 1
        /\ Ended(j) /\ calls[j].ret = BAIL
        /\ Len(session) = 1

\* C5: check_message raises ValueError without calling the evaluator when
\* message and image are both None or both given, and otherwise calls the
\* evaluator once with that input, the session_id and the agent_id.
C5_MessageXorImage ==
    \A i \in Checks :
        LET c == calls[i]
        IN  IF (c.message = None) = (c.image = None)
            THEN /\ c.raised.type = "ValueError"
                 /\ c.sdk = <<>>
                 /\ c.pc = "done"
            ELSE /\ c.raised.type # "ValueError"
                 /\ Len(c.sdk) = 1
                 /\ c.sdk[1].response = c.message
                 /\ c.sdk[1].image = c.image
                 /\ c.sdk[1].context.session_id = c.session_id
                 /\ c.sdk[1].context.user_id = c.agent_id

\* the empty text is a message: the evaluator is called with it; and a call
\* with both inputs is refused
C5_Witness ==
    \E i, j \in Checks :
        /\ calls[i].message = "" /\ calls[i].image = None
        /\ Len(calls[i].sdk) = 1 /\ calls[i].sdk[1].response = ""
        /\ calls[i].sdk[1].context = [user_id |-> "a2", session_id |-> "s2"]
        /\ calls[j].message = "m1" /\ calls[j].image = "img"
        /\ calls[j].raised.type = "ValueError"

\* C6 as stated: whatever the SDK call raises, the hook raises a new exception
\* 'Moderation service failure (Alice)' chained to it, the call is not retried,
\* no event is emitted and nothing is returned.
C6_AnyExceptionWrapped ==
    \A i \in Hooks :
        SdkRaised(i) =>
            /\ calls[i].raised = [type |-> "Exception",
                                  message |-> "Moderation service failure (Alice)",
                                  cause |-> calls[i].sdk_raised.type]
            /\ Len(calls[i].sdk) = 1
            /\ EventsBy(i) = {}
            /\ calls[i].ret = None

\* C6, amended: when the SDK call raises an exception that derives from
\* Exception, the hook raises a new exception 'Moderation service failure
\* (Alice)' chained to it; an exception that derives from BaseException only
\* leaves the hook as it is. Either way the call is not retried, no event is
\* emitted and nothing is returned.
C6_ExceptionWrapped ==
    \A i \in Hooks :
        SdkRaised(i) =>
            /\ calls[i].sdk_raised.is_exception =>
                   calls[i].raised = [type |-> "Exception",
                                      message |-> "Moderation service failure (Alice)",
                                      cause |-> calls[i].sdk_raised.type]
            /\ ~calls[i].sdk_raised.is_exception =>
                   calls[i].raised = [type |-> calls[i].sdk_raised.type,
                                      message |-> None, cause |-> None]
            /\ Len(calls[i].sdk) = 1
            /\ calls[i].sdk_done = 1
            /\ Ended(i)
            /\ EventsBy(i) = {}
            /\ calls[i].warnings = <<>>
            /\ calls[i].ret = None

\* a ConnectionError of the SDK has left the hook as the chained exception
C6_Witness ==
    \E i \in Hooks :
        /\ calls[i].sdk_raised.type = "ConnectionError"
        /\ calls[i].raised.cause = "ConnectionError"
        /\ calls[i].raised.message = "Moderation service failure (Alice)"
        /\ Ended(i)

\* C7: a hook invocation makes exactly one evaluator call, never a second, and
\* that call has completed before the hook logs, emits an event or returns.
C7_OneAwaitedEvaluation ==
    \A i \in Hooks :
        /\ Len(calls[i].sdk) = 1
        /\ calls[i].sdk_done <= 1
        /\ calls[i].pc = "awaiting_sdk" <=> calls[i].sdk_done = 0
        /\ (\/ calls[i].warnings # <<>>
            \/ EventsBy(i) # {}
            \/ calls[i].ret # None
            \/ Ended(i)) => calls[i].sdk_done = 1

\* one hook still awaits its only evaluator call while another has emitted
C7_Witness ==
    \E i, j \in Hooks :
        /\ calls[i].pc = "awaiting_sdk" /\ Len(calls[i].sdk) = 1
        /\ calls[i].warnings = <<>> /\ EventsBy(i) = {}
        /\ calls[j].ret = BAIL /\ Len(calls[j].sdk) = 1 /\ calls[j].sdk_done = 1

\* the resolution of C8 and C9 as stated: an argument counts as given when it
\* is not None
GivenOr(arg, other) == IF arg # None THEN arg ELSE other

\* what C8 says of a constructor call resolving to key and app_name
ConstructorOutcome(key, app_name) ==
    IF key = None \/ key = ""
    THEN /\ ctorCall.raised = "ValueError"
         /\ ~alice.constructed
         /\ Len(sdkClients) = ctorCall.clients_before
    ELSE /\ ctorCall.raised = None
         /\ alice.constructed
         /\ alice.api_key = key
         /\ alice.app_name = app_name
         /\ Len(sdkClients) = ctorCall.clients_before + 1
         /\ sdkClients[Len(sdkClients)] = [api_key |-> key, app_name |-> app_name]
         /\ alice.client = Len(sdkClients)

Used ==
    /\ alice.constructed
    /\ container.configured > 0
    /\ \E i \in Hooks : Ended(i)
    /\ \E i \in Checks : Ended(i)

ComplianceHooks ==
    {j \in DOMAIN container.on_message_generated :
        container.on_message_generated[j] = "Alice.check_message_compliance"}

\* C10: a call of configure_container wraps the NLPService entry that was
\* there, appends the compliance hook after the hooks already registered and
\* registers the Alice; after n calls the hook is registered n times and the
\* NLP service is wrapped n levels deep.
C10_ConfigureAppends ==
    /\ [](/\ Cardinality(ComplianceHooks) = container.configured
          /\ WrapDepth(container.NLPService) = container.configured
          /\ container.configured > 0 => container.Alice = "alice")
    /\ [][container' # container =>
            /\ container'.on_message_generated =
                  Append(container.on_message_generated, "Alice.check_message_compliance")
            /\ container'.NLPService.wrapper = "AliceNLPServiceWrapper"
            /\ container'.NLPService.original = container.NLPService
            /\ container'.NLPService.client = alice.client
            /\ container'.Alice = "alice"]_vars

\* configured twice: the host's two hooks first, the service wrapped twice
C10_Witness ==
    /\ container.configured = 2
    /\ container.on_message_generated =
          <<"host_hook_a", "host_hook_b", "Alice.check_message_compliance",
            "Alice.check_message_compliance">>
    /\ WrapDepth(container.NLPService) = 2
    /\ container.NLPService.original.original = [service |-> "host NLPService"]

====
